---- MODULE Spec2Model ----
(***************************************************************************)
(* Diffusion-coefficient calculator (src/main.py): the gas engine          *)
(* (Substance, BinaryMixture, Mixture), the liquid correlations, the unit  *)
(* converters and the two request handlers.                                *)
(*                                                                         *)
(* Numbers.  Python floats are modelled as decimal fixed-point integers;   *)
(* every operator states the unit of what it takes and returns:            *)
(*   temperatures            centi-kelvin / centi-degrees   (1 K = 100)    *)
(*   pressures               milli-atm / milli-units        (1 atm = 1000) *)
(*   proportions             1e-4                           (1.0 = 10000)  *)
(*   reduced temperature T*  1e-3                           (1.0 = 1000)   *)
(*   collision integral      1e-4, carried as an exact fraction <<n, d>>   *)
(*   collision diameters     milli-angstrom                                *)
(*   diffusivities           1e-6 cm2/s                                    *)
(* Roots are the integer roots at the stated scale; a quotient that is     *)
(* not exact is truncated at the stated scale.  All intermediate values    *)
(* stay below 2^31.                                                        *)
(***************************************************************************)
EXTENDS Integers, Sequences, FiniteSets, TLC

VARIABLES
    pc,        \* "start": the call/request is pending; "done": it has returned
    call,      \* arguments of the engine function under evaluation
    result,    \* its return value
    request,   \* JSON payload of the HTTP request being handled
    response,  \* what the handler returned: status, error, diffusivity
    mixture    \* the Mixture object the gas handler built (main.py:579)

vars == <<pc, call, result, request, response, mixture>>

(***************************************************************************)
(* Arithmetic helpers                                                      *)
(***************************************************************************)
Abs(x) == IF x < 0 THEN -x ELSE x

RECURSIVE RootSearch(_, _, _, _)
\* largest r in lo..hi with r^k <= n (k = 2 or 3), by bisection
RootSearch(n, k, lo, hi) ==
    IF lo >= hi THEN lo
    ELSE LET mid == (lo + hi + 1) \div 2
             p   == IF k = 2 THEN mid * mid ELSE mid * mid * mid
         IN  IF p <= n THEN RootSearch(n, k, mid, hi)
             ELSE RootSearch(n, k, lo, mid - 1)

\* math.sqrt(n) / n ** 0.5, truncated to an integer
ISqrt(n) == RootSearch(n, 2, 0, 46340)

\* n ** (1/3), truncated to an integer
ICbrt(n) == RootSearch(n, 3, 0, 1290)

\* exact comparison of two fractions <<n, d>> with d > 0
RatEq(a, b) == a[1] * b[2] = b[1] * a[2]
RatLeq(a, b) == a[1] * b[2] <= b[1] * a[2]

(***************************************************************************)
(* BinaryMixture.table_index: (T*, Omega_D) pairs, T* in 1e-3 and Omega_D  *)
(* in 1e-4 units.                                                          *)
(***************************************************************************)
table_index ==
    << 
       <<300, 26620>>, <<350, 24760>>, <<400, 23180>>, <<450, 21840>>, <<500, 20660>>,
       <<550, 19660>>, <<600, 18770>>, <<650, 17980>>, <<700, 17290>>, <<750, 16670>>,
       <<800, 16120>>, <<850, 15620>>, <<900, 15170>>, <<950, 14760>>, <<1000, 14390>>,
       <<1050, 14060>>, <<1100, 13750>>, <<1150, 13460>>, <<1200, 13200>>, <<1250, 12960>>,
       <<1300, 12730>>, <<1350, 12530>>, <<1400, 12330>>, <<1450, 12150>>, <<1500, 11980>>,
       <<1550, 11820>>, <<1600, 11670>>, <<1650, 11530>>, <<1700, 11400>>, <<1800, 11160>>,
       <<1850, 11050>>, <<1900, 10940>>, <<1950, 10840>>, <<2000, 10750>>, <<2100, 10570>>,
       <<2200, 10410>>, <<2300, 10260>>, <<2400, 10120>>, <<2500, 9996>>, <<2600, 9878>>,
       <<2700, 9770>>, <<2800, 9672>>, <<2900, 9576>>, <<3000, 9490>>, <<3100, 9406>>,
       <<3200, 9328>>, <<3300, 9256>>, <<3400, 9186>>, <<3500, 9120>>, <<3600, 9058>>,
       <<3700, 8998>>, <<3800, 8942>>, <<3900, 8888>>, <<4000, 8836>>, <<4100, 8788>>,
       <<4200, 8740>>, <<4300, 8694>>, <<4400, 8652>>, <<4500, 8610>>, <<4600, 8568>>,
       <<4700, 8530>>, <<4800, 8492>>, <<4900, 8456>>, <<5000, 8422>>, <<6000, 8124>>,
       <<7000, 7896>>, <<8000, 7712>>, <<10000, 7424>>, <<20000, 6640>>, <<30000, 6232>>,
       <<40000, 5960>>, <<50000, 5756>>, <<60000, 5596>>, <<70000, 5464>>, <<80000, 5352>>,
       <<90000, 5256>>
    >>

(***************************************************************************)
(* Collision-integral lookup: the loop of calculate_difusivity_integral    *)
(***************************************************************************)
\* y = y1 + (y2-y1)*(x-x1)/(x2-x1) over the common denominator x2-x1
InterpolateBetweenSwapped(p1, p2, t_star) ==
    << p2[2] * (p2[1] - p1[1]) + (p1[2] - p2[2]) * (t_star - p1[1]), p2[1] - p1[1] >>

\* an interpolation whose slope has the opposite sign
InterpolateReflected(p1, p2, t_star) ==
    << p1[2] * (p2[1] - p1[1]) - (p2[2] - p1[2]) * (t_star - p1[1]),
       p2[1] - p1[1] >>

Interpolate(p1, p2, t_star) ==
    << p1[2] * (p2[1] - p1[1]) + (p2[2] - p1[2]) * (t_star - p1[1]), p2[1] - p1[1] >>

RECURSIVE ScanTable(_, _)
\* iteration i of "for i in range(len(self.table_index))" and what follows it
ScanTable(t_star, i) ==
    IF i > Len(table_index) THEN << table_index[Len(table_index)][2], 1 >>
    ELSE IF table_index[i][1] >= t_star
         THEN IF i = 1 THEN << table_index[1][2], 1 >>
              ELSE Interpolate(table_index[i - 1], table_index[i], t_star)
         ELSE ScanTable(t_star, i + 1)

RECURSIVE ScanTableNoClamp(_, _)
\* the lookup without its boundary policy: extrapolates along the first and
\* the last segment instead of clamping
ScanTableNoClamp(t_star, i) ==
    IF i > Len(table_index)
    THEN Interpolate(table_index[Len(table_index) - 1],
                     table_index[Len(table_index)], t_star)
    ELSE IF table_index[i][1] >= t_star
         THEN IF i = 1 THEN Interpolate(table_index[1], table_index[2], t_star)
              ELSE Interpolate(table_index[i - 1], table_index[i], t_star)
         ELSE ScanTableNoClamp(t_star, i + 1)

LookupNoClamp(t_star) == ScanTableNoClamp(t_star, 1)

\* Omega_D for a reduced temperature, as an exact fraction of 1e-4 units
Lookup(t_star) == ScanTable(t_star, 1)

(***************************************************************************)
(* Specification of the lookup as a pure function of T*                    *)
(***************************************************************************)
MaxTStar == 95000

TStarRange == (0 - 200) .. MaxTStar

Idle ==
    /\ request = [kind |-> "none"]
    /\ response = [status |-> 0]
    /\ mixture = [built |-> FALSE]

LookupInit ==
    /\ pc = "start"
    /\ call \in [op : {"calculate_difusivity_integral"}, t_star : TStarRange]
    /\ result = << 0, 1 >>
    /\ Idle

LookupCall ==
    /\ pc = "start"
    /\ call.op = "calculate_difusivity_integral"
    /\ result' = Lookup(call.t_star)
    /\ pc' = "done"
    /\ UNCHANGED << call, request, response, mixture >>

LookupNext == LookupCall

SpecLookup == LookupInit /\ [][LookupNext]_vars

(***************************************************************************)
(* Properties of the lookup                                                *)
(***************************************************************************)
LookupDone == pc = "done" /\ call.op = "calculate_difusivity_integral"

TableLen == Len(table_index)

TableStrictlyIncreasing ==
    \A i \in 1 .. (TableLen - 1) : table_index[i][1] < table_index[i + 1][1]

\* index of the first table entry whose T* column is >= t_star
FirstAtLeast(t_star) ==
    CHOOSE i \in 1 .. TableLen :
        /\ table_index[i][1] >= t_star
        /\ (i = 1 \/ table_index[i - 1][1] < t_star)

(* C1: the lookup clamps at both ends of the table: every T* <= 0.30 (the  *)
(* first entry) returns the first entry's value 2.662 and every T* > 90.0  *)
(* (the last entry) returns the last entry's value 0.5256; nothing is      *)
(* extrapolated and every T* has a result.                                 *)
C1_LookupClampsAtBothEnds ==
    /\ table_index[1] = << 300, 26620 >>
    /\ table_index[TableLen] = << 90000, 5256 >>
    /\ LookupDone =>
          /\ call.t_star <= 300 => result = << 26620, 1 >>
          /\ call.t_star > 90000 => result = << 5256, 1 >>

\* T* = 95 (above the table) has returned the last entry's 0.5256
C1_Witness ==
    LookupDone /\ call.t_star = 95000 /\ result = << 5256, 1 >>

(* C2: for 0.30 < T* <= 90.0 the lookup takes the first entry (x2,y2) with *)
(* x2 >= T* and its predecessor (x1,y1) and returns                        *)
(* y1 + (y2-y1)*(T*-x1)/(x2-x1); so a T* equal to a table anchor returns   *)
(* that anchor's value (T*=1.00 gives 1.439) and T*=0.325 gives 2.569.     *)
C2_LookupInterpolatesLinearly ==
    /\ TableStrictlyIncreasing
    /\ (LookupDone /\ call.t_star > 300 /\ call.t_star <= 90000) =>
          LET i  == FirstAtLeast(call.t_star)
              x1 == table_index[i - 1][1]
              y1 == table_index[i - 1][2]
              x2 == table_index[i][1]
              y2 == table_index[i][2]
          IN  /\ i > 1
              /\ result[2] = x2 - x1
              \* (omega - y1) * (x2 - x1) = (y2 - y1) * (T* - x1)
              /\ result[1] - y1 * result[2] = (y2 - y1) * (call.t_star - x1)
              /\ call.t_star = x2 => RatEq(result, << y2, 1 >>)
    /\ (LookupDone /\ call.t_star = 1000) => RatEq(result, << 14390, 1 >>)
    /\ (LookupDone /\ call.t_star = 325) => RatEq(result, << 25690, 1 >>)

\* T* = 0.325 has been interpolated between 0.30 and 0.35 to 2.569
C2_Witness ==
    LookupDone /\ call.t_star = 325 /\ RatEq(result, << 25690, 1 >>)
       /\ result[2] = 50

(***************************************************************************)
(* Python call outcomes: a returned value or a raised exception            *)
(***************************************************************************)
Ret(v) == [exc |-> "none", val |-> v]
Raise(e) == [exc |-> e, val |-> 0]

(***************************************************************************)
(* class Substance                                                         *)
(***************************************************************************)
\* sigma_A = 0.841 * Vc ** (1/3); Vc in cm3/mol, sigma in milli-angstrom
Substance_calculate_colision_diameter(critical_volume) ==
    (841 * ICbrt(critical_volume * 10^6)) \div 100

\* Substance.__init__: molecular_mass in g/mol, critical_temperature in cK
Substance(name, molecular_mass, critical_volume, critical_temperature, proportion) ==
    [ name                 |-> name,
      molecular_mass       |-> molecular_mass,
      critical_volume      |-> critical_volume,
      critical_temperature |-> critical_temperature,
      proportion           |-> proportion,
      colision_diameter    |-> Substance_calculate_colision_diameter(critical_volume) ]

(***************************************************************************)
(* class BinaryMixture                                                     *)
(***************************************************************************)
\* a diameter taken from the first substance alone
BinaryMixture_first_colision_diameter(substance1, substance2) ==
    substance1.colision_diameter

\* sigma_AB = (sigma_A + sigma_B) / 2, milli-angstrom
BinaryMixture_calculate_colision_diameter(substance1, substance2) ==
    (substance1.colision_diameter + substance2.colision_diameter) \div 2

\* sqrt(Tc_A * Tc_B * 0.77 ** 2) in cK; the product is taken in K^2
ReducingTemperature(substance1, substance2) ==
    ISqrt(((substance1.critical_temperature * substance2.critical_temperature)
              \div 10^4) * 5929)

\* T* = T / sqrt(Tc_A * Tc_B * 0.77 ** 2), in 1e-3 units
ReducedTemperature(substance1, substance2, temperature) ==
    (temperature * 10^3) \div ReducingTemperature(substance1, substance2)

\* BinaryMixture.calculate_difusivity_integral: Omega_D as a fraction of 1e-4
calculate_difusivity_integral(substance1, substance2, temperature) ==
    IF ReducingTemperature(substance1, substance2) = 0
    THEN Raise("ZeroDivisionError")
    ELSE Ret(Lookup(ReducedTemperature(substance1, substance2, temperature)))

\* BinaryMixture.calculate_binary_diffusivity: D_AB in 1e-6 cm2/s, for
\* temperature > 0 (cK), pressure >= 0 (milli-atm) and positive masses
calculate_binary_diffusivity(substance1, substance2, temperature, pressure) ==
    LET integral == calculate_difusivity_integral(substance1, substance2, temperature)
    IN  IF integral.exc /= "none" THEN integral
        ELSE
        LET omega_d == integral.val[1] \div integral.val[2]
            o_ab    == BinaryMixture_calculate_colision_diameter(substance1, substance2)
            \* 0.001858 * T ** 1.5, in 1e-4
            term1   == (((temperature * ISqrt(temperature * 100)) \div 10^4) * 1858)
                          \div 100
            \* (1/M_A + 1/M_B) ** 0.5, in 1e-4
            term2   == ISqrt((10^8 \div substance1.molecular_mass)
                               + (10^8 \div substance2.molecular_mass))
            \* P * Omega_D * sigma_AB ** 2, in 1e-2
            term3   == (((pressure * omega_d) \div 10^4) * ((o_ab * o_ab) \div 10^4))
                          \div 10^3
        IN  IF term3 = 0 THEN Raise("ZeroDivisionError")
            ELSE Ret((term1 * term2) \div term3)

(***************************************************************************)
(* Input data shared by the specifications                                 *)
(***************************************************************************)
Names == {"A", "B", "C"}

\* physical data of the i-th substance of a collection:
\* molecular mass (g/mol), critical volume (cm3/mol), critical temperature (cK)
Catalog ==
    << [molecular_mass |-> 16, critical_volume |-> 99,  critical_temperature |-> 19060],
       [molecular_mass |-> 30, critical_volume |-> 148, critical_temperature |-> 30540],
       [molecular_mass |-> 44, critical_volume |-> 200, critical_temperature |-> 36980],
       [molecular_mass |-> 28, critical_volume |-> 90,  critical_temperature |-> 12620],
       [molecular_mass |-> 20, critical_volume |-> 42,  critical_temperature |-> 4440] >>

\* system temperatures (cK) and pressures (milli-atm) of the engine calls
EngineTemperatures == {5000, 30000, 80000}
EnginePressures == {0, 500, 1000, 2000}

(***************************************************************************)
(* Specification of the binary engine as a pure function                   *)
(***************************************************************************)
BinarySubstances ==
    { Substance(n, Catalog[i].molecular_mass, Catalog[i].critical_volume,
                Catalog[i].critical_temperature, p) :
        n \in {"A", "B"}, i \in 1 .. Len(Catalog), p \in {2500, 5000} }

BinaryInit ==
    /\ pc = "start"
    /\ call \in [ op : {"calculate_binary_diffusivity"},
                  substance1 : BinarySubstances, substance2 : BinarySubstances,
                  temperature : EngineTemperatures, pressure : EnginePressures ]
    /\ result = Ret(0)
    /\ Idle

BinaryCall ==
    /\ pc = "start"
    /\ call.op = "calculate_binary_diffusivity"
    /\ result' = calculate_binary_diffusivity(call.substance1, call.substance2,
                                              call.temperature, call.pressure)
    /\ pc' = "done"
    /\ UNCHANGED << call, request, response, mixture >>

BinaryNext == BinaryCall

SpecBinary == BinaryInit /\ [][BinaryNext]_vars

BinaryDone == pc = "done" /\ call.op = "calculate_binary_diffusivity"

(* C7: binary gas diffusivity is symmetric: BinaryMixture(A, B, T, P) and  *)
(* BinaryMixture(B, A, T, P) give the same calculate_binary_diffusivity(), *)
(* the reduced temperature, collision integral, mean collision diameter    *)
(* and mass term each being unchanged by the swap.                         *)
C7_BinaryDiffusivitySymmetric ==
    BinaryDone =>
        LET a == call.substance1
            b == call.substance2
        IN  /\ result = calculate_binary_diffusivity(b, a, call.temperature, call.pressure)
            /\ ReducedTemperature(a, b, call.temperature)
                  = ReducedTemperature(b, a, call.temperature)
            /\ calculate_difusivity_integral(a, b, call.temperature)
                  = calculate_difusivity_integral(b, a, call.temperature)
            /\ BinaryMixture_calculate_colision_diameter(a, b)
                  = BinaryMixture_calculate_colision_diameter(b, a)

\* a diffusivity was returned for two substances that differ in every property
C7_Witness ==
    /\ BinaryDone
    /\ result.exc = "none" /\ result.val > 0
    /\ call.substance1.molecular_mass /= call.substance2.molecular_mass
    /\ call.substance1.colision_diameter /= call.substance2.colision_diameter
    /\ call.substance1.critical_temperature /= call.substance2.critical_temperature

(***************************************************************************)
(* class Mixture                                                           *)
(***************************************************************************)
RECURSIVE AccumulateTermsUnscaled(_, _, _, _, _, _)
\* the loop with each proportion used as it is, not divided by 1 - yA
AccumulateTermsUnscaled(target_substance, substances, temperature, pressure, i, sum_terms) ==
    IF i > Len(substances) THEN Ret(sum_terms)
    ELSE
    LET substance == substances[i]
    IN  IF substance.name /= target_substance.name
        THEN LET d_ax == calculate_binary_diffusivity(target_substance, substance,
                                                      temperature, pressure)
             IN  IF d_ax.exc /= "none" THEN d_ax
                 ELSE IF d_ax.val = 0 THEN Raise("ZeroDivisionError")
                 ELSE AccumulateTermsUnscaled(target_substance, substances, temperature,
                                              pressure, i + 1,
                                              sum_terms + ((substance.proportion * 10^5)
                                                             \div d_ax.val))
        ELSE AccumulateTermsUnscaled(target_substance, substances, temperature,
                                     pressure, i + 1, sum_terms)

SumTermsUnscaled(target_substance, substances, temperature, pressure) ==
    AccumulateTermsUnscaled(target_substance, substances, temperature, pressure, 1, 0)

RECURSIVE AccumulateTerms(_, _, _, _, _, _)
\* iteration i of "for substance in self.substances" with the running
\* sum_terms (1e-3 units)
AccumulateTerms(target_substance, substances, temperature, pressure, i, sum_terms) ==
    IF i > Len(substances) THEN Ret(sum_terms)
    ELSE
    LET substance == substances[i]
    IN  IF substance.name /= target_substance.name
        THEN IF 10^4 - target_substance.proportion = 0
             THEN Raise("ZeroDivisionError")
             ELSE
             LET \* y' = y / (1 - yA), in 1e-4
                 y_prime == (substance.proportion * 10^4)
                               \div (10^4 - target_substance.proportion)
                 d_ax    == calculate_binary_diffusivity(target_substance, substance,
                                                         temperature, pressure)
             IN  IF d_ax.exc /= "none" THEN d_ax
                 ELSE IF d_ax.val = 0 THEN Raise("ZeroDivisionError")
                 ELSE AccumulateTerms(target_substance, substances, temperature,
                                      pressure, i + 1,
                                      sum_terms + ((y_prime * 10^5) \div d_ax.val))
        ELSE AccumulateTerms(target_substance, substances, temperature, pressure,
                             i + 1, sum_terms)

\* lines 274-302: sum_terms after the loop over self.substances
SumTerms(target_substance, substances, temperature, pressure) ==
    AccumulateTerms(target_substance, substances, temperature, pressure, 1, 0)

\* a multicomponent case that falls back to 0 for every sum up to 1000
MulticomponentFallbackBelow(target_substance, substances, temperature, pressure) ==
    LET sum_terms == SumTerms(target_substance, substances, temperature, pressure)
    IN  IF sum_terms.exc /= "none" THEN sum_terms
        ELSE Ret(IF sum_terms.val > 10^6 THEN 10^9 \div sum_terms.val ELSE 0)

\* lines 270-311: the multicomponent case, D_Amix in 1e-6 cm2/s
Multicomponent(target_substance, substances, temperature, pressure) ==
    LET sum_terms == SumTerms(target_substance, substances, temperature, pressure)
    IN  IF sum_terms.exc /= "none" THEN sum_terms
        ELSE Ret(IF sum_terms.val > 0 THEN 10^9 \div sum_terms.val ELSE 0)

\* the engine without its binary case
calculate_mixture_diffusivity_no_binary_case(target_substance, substances, temperature, pressure) ==
    Multicomponent(target_substance, substances, temperature, pressure)

\* Mixture.calculate_mixture_diffusivity
calculate_mixture_diffusivity(target_substance, substances, temperature, pressure) ==
    IF Len(substances) = 2
    THEN calculate_binary_diffusivity(substances[1], substances[2], temperature, pressure)
    ELSE Multicomponent(target_substance, substances, temperature, pressure)

(***************************************************************************)
(* Specification of the mixture engine as a pure function                  *)
(***************************************************************************)
MaxSubstances == 3

MixtureProportions == {0, 2500, 5000, 10000}

\* a collection: names and proportions are free, the physical data of the
\* i-th substance is Catalog[i]
Collection(names, proportions) ==
    [ i \in 1 .. Len(names) |->
        Substance(names[i], Catalog[i].molecular_mass, Catalog[i].critical_volume,
                  Catalog[i].critical_temperature, proportions[i]) ]

MixtureInit ==
    /\ pc = "start"
    /\ \E n \in 1 .. MaxSubstances :
         \E names \in [1 .. n -> Names], proportions \in [1 .. n -> MixtureProportions],
            k \in 1 .. n, T \in {30000}, P \in {0, 1000} :
              call = [ op               |-> "calculate_mixture_diffusivity",
                       substances       |-> Collection(names, proportions),
                       target_substance |-> Collection(names, proportions)[k],
                       temperature      |-> T,
                       pressure         |-> P ]
    /\ result = Ret(0)
    /\ Idle

MixtureCall ==
    /\ pc = "start"
    /\ call.op = "calculate_mixture_diffusivity"
    /\ result' = calculate_mixture_diffusivity(call.target_substance, call.substances,
                                               call.temperature, call.pressure)
    /\ pc' = "done"
    /\ UNCHANGED << call, request, response, mixture >>

MixtureNext == MixtureCall

SpecMixture == MixtureInit /\ [][MixtureNext]_vars

MixtureDone == pc = "done" /\ call.op = "calculate_mixture_diffusivity"

(* C6: for a collection of exactly 2 substances the mixture engine returns *)
(* what BinaryMixture.calculate_binary_diffusivity returns for that pair   *)
(* at the same T and P, whichever of the two is the target and whatever    *)
(* their proportions are.                                                  *)
C6_TwoSubstancesEqualBinary ==
    (MixtureDone /\ Len(call.substances) = 2) =>
        /\ result = calculate_binary_diffusivity(call.substances[1], call.substances[2],
                                                 call.temperature, call.pressure)
        /\ result = calculate_binary_diffusivity(call.substances[2], call.substances[1],
                                                 call.temperature, call.pressure)

\* a pair with unequal proportions, the second substance being the target,
\* has returned a diffusivity
C6_Witness ==
    /\ MixtureDone /\ Len(call.substances) = 2
    /\ call.target_substance = call.substances[2]
    /\ call.substances[1].name /= call.substances[2].name
    /\ call.substances[1].proportion = 2500 /\ call.substances[2].proportion = 5000
    /\ result.exc = "none" /\ result.val > 0

\* indices of the substances whose name differs from the target's
Others(target_substance, substances) ==
    { i \in 1 .. Len(substances) : substances[i].name /= target_substance.name }

\* (y_i / (1 - y_target)) / D_target,i in 1e-3 units
TermOf(target_substance, substance, temperature, pressure) ==
    ((((substance.proportion * 10^4) \div (10^4 - target_substance.proportion)) * 10^5)
        \div calculate_binary_diffusivity(target_substance, substance,
                                          temperature, pressure).val)

RECURSIVE SumOver(_, _, _, _, _)
SumOver(indices, target_substance, substances, temperature, pressure) ==
    IF indices = {} THEN 0
    ELSE LET i == CHOOSE j \in indices : TRUE
         IN  TermOf(target_substance, substances[i], temperature, pressure)
               + SumOver(indices \ {i}, target_substance, substances, temperature, pressure)

(* C8: for 3 or more substances the engine accumulates, over every         *)
(* substance i whose name differs from the target's, the term              *)
(* (y_i / (1 - y_target)) / D_target,i at the shared T and P and returns   *)
(* 1/Sum when Sum > 0 and 0 when Sum <= 0; the target contributes no term. *)
C8_MulticomponentHarmonicSum ==
    (MixtureDone /\ Len(call.substances) >= 3) =>
        LET target == call.target_substance
            others == Others(target, call.substances)
            \* every term (y_i / (1 - y_target)) / D_target,i has a value
            defined ==
                others /= {} =>
                    /\ target.proportion /= 10^4
                    /\ \A i \in others :
                          LET D == calculate_binary_diffusivity(
                                       target, call.substances[i],
                                       call.temperature, call.pressure)
                          IN  D.exc = "none" /\ D.val /= 0
        IN  /\ \A i \in 1 .. Len(call.substances) :
                  call.substances[i] = target => i \notin others
            \* a term without a value (a zero denominator) raises instead
            /\ result.exc = "none" <=> defined
            /\ result.exc = "none" =>
                  LET Sum == SumOver(others, target, call.substances,
                                     call.temperature, call.pressure)
                  IN  /\ Sum > 0 => result.val = 10^9 \div Sum
                      /\ Sum <= 0 => result.val = 0

\* three substances with distinct names, the target at 0.5 and the others at
\* 0.25 each, have given 1/Sum
C8_Witness ==
    /\ MixtureDone /\ Len(call.substances) = 3
    /\ Cardinality({call.substances[i].name : i \in 1 .. 3}) = 3
    /\ call.target_substance.proportion = 5000
    /\ \A i \in Others(call.target_substance, call.substances) :
          call.substances[i].proportion = 2500
    /\ result.exc = "none" /\ result.val > 0

\* a collection whose non-target terms sum to <= 0 has given 0
C8_ZeroFallbackReached ==
    /\ MixtureDone /\ Len(call.substances) = 3
    /\ Others(call.target_substance, call.substances) /= {}
    /\ result.exc = "none" /\ result.val = 0

(***************************************************************************)
(* Unit converters                                                         *)
(***************************************************************************)
\* str.lower() on the unit strings the requests use
Lower(unit) ==
    CASE unit = "C" -> "c"
      [] unit = "Celsius" -> "celsius"
      [] unit = "CELSIUS" -> "celsius"
      [] unit = "F" -> "f"
      [] unit = "Fahrenheit" -> "fahrenheit"
      [] unit = "FAHRENHEIT" -> "fahrenheit"
      [] unit = "K" -> "k"
      [] unit = "Kelvin" -> "kelvin"
      [] unit = "ATM" -> "atm"
      [] unit = "Atm" -> "atm"
      [] unit = "Bar" -> "bar"
      [] unit = "BAR" -> "bar"
      [] unit = "PSI" -> "psi"
      [] unit = "Pa" -> "pa"
      [] unit = "PA" -> "pa"
      [] unit = "kPa" -> "kpa"
      [] unit = "KPA" -> "kpa"
      [] unit = "mmHg" -> "mmhg"
      [] unit = "MMHG" -> "mmhg"
      [] unit = "Torr" -> "torr"
      [] unit = "TORR" -> "torr"
      [] unit = "Agua" -> "agua"
      [] unit = "AGUA" -> "agua"
      [] OTHER -> unit

\* a converter that compares the unit as written, without lower()
convert_temperature_case_sensitive(temp, unit) ==
    IF unit = "c" \/ unit = "celsius"
    THEN temp + 27315
    ELSE IF unit = "f" \/ unit = "fahrenheit"
         THEN ((temp - 3200) * 5) \div 9 + 27315
         ELSE temp

\* temp in centi-degrees of its unit; the result in cK
convert_temperature_to_kelvin(temp, unit) ==
    IF Lower(unit) = "c" \/ Lower(unit) = "celsius"
    THEN temp + 27315
    ELSE IF Lower(unit) = "f" \/ Lower(unit) = "fahrenheit"
         THEN ((temp - 3200) * 5) \div 9 + 27315
         ELSE temp

\* the conversion factors as << mantissa, decimal places >>
conversions ==
    [ unit \in {"atm", "bar", "psi", "pa", "kpa", "mmhg", "torr"} |->
        CASE unit = "atm"  -> << 1, 0 >>
          [] unit = "bar"  -> << 986923, 6 >>
          [] unit = "psi"  -> << 68046, 6 >>
          [] unit = "pa"   -> << 986923, 11 >>
          [] unit = "kpa"  -> << 986923, 8 >>
          [] unit = "mmhg" -> << 131579, 8 >>
          [] unit = "torr" -> << 131579, 8 >> ]

\* pressure in milli-units of its unit; the result in milli-atm
convert_pressure_to_atm(pressure, unit) ==
    LET factor == IF Lower(unit) \in DOMAIN conversions
                  THEN conversions[Lower(unit)] ELSE << 1, 0 >>
        product == pressure * factor[1]
    IN  \* the product shifted by the factor's decimal places, in two steps
        IF factor[2] > 6 THEN (product \div 10^6) \div 10^(factor[2] - 6)
        ELSE product \div 10^(factor[2])

(***************************************************************************)
(* POST /calculate: calculate_diffusivity                                  *)
(***************************************************************************)
TargetNotFoundMessage == "Sustancia objetivo no encontrada en la lista"
ProportionsMessage == "Las proporciones deben sumar 1.0"

\* the keys the handler reads from the payload, in the order it reads them
GasKeys ==
    << "substances", "target_substance", "temperature", "temp_unit",
       "pressure", "pressure_unit" >>

\* data[key] raises KeyError for a key the payload lacks
HasAllKeys(data) == \A i \in 1 .. Len(GasKeys) : GasKeys[i] \in DOMAIN data

\* lines 536-552: one Substance per entry of data['substances']
BuildSubstances(substances_data) ==
    [ i \in 1 .. Len(substances_data) |->
        Substance(substances_data[i].name,
                  substances_data[i].molecular_mass,
                  substances_data[i].critical_volume,
                  convert_temperature_to_kelvin(substances_data[i].critical_temperature,
                                                substances_data[i].temp_unit),
                  substances_data[i].proportion) ]

RECURSIVE ScanForTarget(_, _, _, _)
\* lines 554-557 over the loop: the index of the substance target_substance
\* refers to after iteration i - 1 (0 is None); a later match replaces it
ScanForTarget(substances, target_substance_name, i, target_substance) ==
    IF i > Len(substances) THEN target_substance
    ELSE ScanForTarget(substances, target_substance_name, i + 1,
                       IF substances[i].name = target_substance_name
                       THEN i ELSE target_substance)

\* a search that falls back on the first substance when no name matches
FindTargetOrFirst(substances, target_substance_name) ==
    LET found == ScanForTarget(substances, target_substance_name, 1, 0)
    IN  IF found = 0 /\ Len(substances) > 0 THEN 1 ELSE found

FindTarget(substances, target_substance_name) ==
    ScanForTarget(substances, target_substance_name, 1, 0)

RECURSIVE SumProportions(_, _)
\* sum(s.proportion for s in substances), from index i on
SumProportions(substances, i) ==
    IF i > Len(substances) THEN 0
    ELSE substances[i].proportion + SumProportions(substances, i + 1)

\* a tolerance test that also rejects a deviation of exactly 0.001
ProportionsRejectedAtTolerance(total_proportion) ==
    Abs(total_proportion - 10^4) >= 10

\* line 571: abs(total_proportion - 1.0) > 0.001
ProportionsRejected(total_proportion) ==
    Abs(total_proportion - 10^4) > 10

ErrorResponse(status, message) ==
    [status |-> status, body |-> [error |-> message]]

NotBuilt == [built |-> FALSE]

\* the whole handler: the response it returns and the Mixture it built
GasHandler(data) ==
    IF ~HasAllKeys(data)
    THEN [response |-> ErrorResponse(500, "KeyError"), mixture |-> NotBuilt]
    ELSE
    LET temperature == convert_temperature_to_kelvin(data.temperature, data.temp_unit)
        pressure    == convert_pressure_to_atm(data.pressure, data.pressure_unit)
        substances  == BuildSubstances(data.substances)
        target      == FindTarget(substances, data.target_substance)
        total_proportion == SumProportions(substances, 1)
    IN  IF target = 0
        THEN [response |-> ErrorResponse(400, TargetNotFoundMessage),
              mixture  |-> NotBuilt]
        ELSE IF ProportionsRejected(total_proportion)
        THEN [response |-> ErrorResponse(400, ProportionsMessage),
              mixture  |-> NotBuilt]
        ELSE
        LET built == [ built            |-> TRUE,
                       target_substance |-> substances[target],
                       substances       |-> substances,
                       temperature      |-> temperature,
                       pressure         |-> pressure ]
            diffusivity == calculate_mixture_diffusivity(substances[target], substances,
                                                         temperature, pressure)
        IN  IF diffusivity.exc /= "none"
            THEN [response |-> ErrorResponse(500, diffusivity.exc), mixture |-> built]
            ELSE [response |->
                    [status |-> 200,
                     body   |-> [ diffusivity      |-> diffusivity.val,
                                  units            |-> "cm2/s",
                                  temperature_k    |-> temperature,
                                  pressure_atm     |-> pressure,
                                  target_substance |-> data.target_substance,
                                  mixture_type     |-> IF Len(substances) = 2
                                                       THEN "binaria"
                                                       ELSE "multicomponente" ]],
                  mixture |-> built]

GasProportions == {0, 2500, 5000, 5005, 5100, 10000}

\* the payload entry of the i-th substance; the second one gives its
\* critical temperature in Celsius
SubstanceData(i, name, proportion) ==
    [ name                 |-> name,
      molecular_mass       |-> Catalog[i].molecular_mass,
      critical_volume      |-> Catalog[i].critical_volume,
      critical_temperature |-> IF i = 2 THEN Catalog[i].critical_temperature - 27315
                               ELSE Catalog[i].critical_temperature,
      temp_unit            |-> IF i = 2 THEN "C" ELSE "K",
      proportion           |-> proportion ]

\* temperature, pressure and their units; the last payload lacks 'pressure'
GasConditions ==
    { [temperature |-> 30000, temp_unit |-> "K", pressure |-> 1000, pressure_unit |-> "atm"],
      [temperature |-> 2685, temp_unit |-> "C", pressure |-> 0, pressure_unit |-> "bar"],
      [temperature |-> 30000, temp_unit |-> "K", pressure_unit |-> "atm"] }

GasTargets == {"A", "B"}

GasPayload(substances_data, target, conditions) ==
    [ key \in {"substances", "target_substance"} \cup DOMAIN conditions |->
        IF key = "substances" THEN substances_data
        ELSE IF key = "target_substance" THEN target
        ELSE conditions[key] ]

Init ==
    /\ pc = "start"
    /\ \E n \in 0 .. MaxSubstances :
         \E names \in [1 .. n -> Names], proportions \in [1 .. n -> GasProportions],
            target \in GasTargets, conditions \in GasConditions :
              request =
                [ kind |-> "gas",
                  data |-> GasPayload([i \in 1 .. n |->
                                          SubstanceData(i, names[i], proportions[i])],
                                      target, conditions) ]
    /\ response = [status |-> 0]
    /\ mixture = NotBuilt
    /\ call = [op |-> "none"]
    /\ result = Ret(0)

calculate_diffusivity ==
    /\ pc = "start"
    /\ request.kind = "gas"
    /\ response' = GasHandler(request.data).response
    /\ mixture' = GasHandler(request.data).mixture
    /\ pc' = "done"
    /\ UNCHANGED << call, result, request >>

Next == calculate_diffusivity

Spec == Init /\ [][Next]_vars

(***************************************************************************)
(* Properties of the gas calculation                                       *)
(***************************************************************************)
GasDone == pc = "done" /\ request.kind = "gas"

\* the payload has every key the handler reads
Parsed == HasAllKeys(request.data)

\* number of submitted substances whose name is the target's
TargetCount ==
    Cardinality({ i \in 1 .. Len(request.data.substances) :
                    request.data.substances[i].name = request.data.target_substance })

RECURSIVE SubmittedSum(_)
\* S: the sum of the submitted proportions, from index i on (1e-4 units)
SubmittedSum(i) ==
    IF i > Len(request.data.substances) THEN 0
    ELSE request.data.substances[i].proportion + SubmittedSum(i + 1)

IsError(r) == r.status \in {400, 500} /\ DOMAIN r.body = {"error"}

(* C3: in the gas calculation a request whose proportions sum to S is      *)
(* rejected by the proportion check with a validation error, the mixture   *)
(* engine never being invoked for it, exactly when |S - 1.0| > 0.001; a    *)
(* request with |S - 1.0| <= 0.001 (e.g. 1.0005) passes the check, and     *)
(* S = 1.01 is rejected.                                                   *)
C3_ProportionSumTolerance ==
    (GasDone /\ Parsed /\ TargetCount > 0) =>
        LET S == SubmittedSum(1)
            deviation == IF S >= 10000 THEN S - 10000 ELSE 10000 - S
        IN  /\ deviation > 10 =>
                 /\ response = ErrorResponse(400, ProportionsMessage)
                 /\ ~mixture.built
            /\ deviation <= 10 =>
                 /\ response /= ErrorResponse(400, ProportionsMessage)
                 /\ mixture.built
            /\ S = 10005 => mixture.built
            /\ S = 10100 => response = ErrorResponse(400, ProportionsMessage)

\* a request with S = 1.01 was rejected by the proportion check
C3_Witness ==
    /\ GasDone /\ Parsed /\ TargetCount > 0
    /\ SubmittedSum(1) = 10100
    /\ response = ErrorResponse(400, ProportionsMessage)
    /\ ~mixture.built

\* a request with S = 1.0005 passed and got a diffusivity
C3_WithinToleranceReached ==
    /\ GasDone /\ SubmittedSum(1) = 10005
    /\ mixture.built /\ response.status = 200

\* a request with S = 1.001, the edge of the tolerance, passed
C3_EdgeReached ==
    /\ GasDone /\ SubmittedSum(1) = 10010
    /\ mixture.built /\ response.status = 200

(* C4: if no submitted substance is named target_substance the request     *)
(* ends with a structured validation failure carrying a message, and no    *)
(* diffusivity computation is attempted.                                   *)
C4_TargetNotFoundRejected ==
    (GasDone /\ TargetCount = 0) =>
        /\ IsError(response)
        /\ ~mixture.built
        /\ Parsed => response = ErrorResponse(400, TargetNotFoundMessage)

\* two substances whose proportions are fine, neither named like the target
C4_Witness ==
    /\ GasDone /\ Parsed /\ TargetCount = 0
    /\ Len(request.data.substances) = 2 /\ SubmittedSum(1) = 10000
    /\ response = ErrorResponse(400, TargetNotFoundMessage)
    /\ ~mixture.built

(* C5: whenever the gas calculation invokes the mixture engine, the        *)
(* target's name is present exactly once in the collection; a collection   *)
(* holding the target's name twice or more never reaches the engine.       *)
C5_TargetNameUniqueAtEngine ==
    (GasDone /\ mixture.built) =>
        Cardinality({ i \in 1 .. Len(mixture.substances) :
                        mixture.substances[i].name = mixture.target_substance.name }) = 1

(***************************************************************************)
(* Liquid correlations: Tyne extrapolation                                 *)
(***************************************************************************)
RECURSIVE GCD(_, _)
GCD(a, b) == IF b = 0 THEN Abs(a) ELSE GCD(b, a % Abs(b))

\* the float a / b (b /= 0) as a fraction in lowest terms, denominator > 0
Quotient(a, b) ==
    LET g == GCD(a, b)
    IN  IF b > 0 THEN << a \div g, b \div g >> ELSE << (0 - a) \div g, (0 - b) \div g >>

\* a step function whose intervals are closed above instead of below
TyneExponentClosedAbove(deltaHv) ==
    IF 7900 <= deltaHv /\ deltaHv <= 30000 THEN 3
    ELSE IF 30000 < deltaHv /\ deltaHv <= 39000 THEN 4
    ELSE IF 39000 < deltaHv /\ deltaHv <= 46000 THEN 6
    ELSE IF 46000 < deltaHv /\ deltaHv <= 50000 THEN 8
    ELSE 10

\* lines 398-408: the exponent n chosen from deltaHv (kJ/kmol)
TyneExponent(deltaHv) ==
    IF 7900 <= deltaHv /\ deltaHv < 30000 THEN 3
    ELSE IF 30000 <= deltaHv /\ deltaHv < 39000 THEN 4
    ELSE IF 39000 <= deltaHv /\ deltaHv < 46000 THEN 6
    ELSE IF 46000 <= deltaHv /\ deltaHv < 50000 THEN 8
    ELSE 10

\* tyne_extrapolation: (D_AB_T1, n), D_AB_T1 as a fraction of 1e-6 cm2/s;
\* temperatures in cK
tyne_extrapolation(DAB_T2, T1, T2, Tc, deltaHv) ==
    LET n == TyneExponent(deltaHv)
    IN  IF Tc - T1 = 0 THEN Raise("ZeroDivisionError")
        ELSE LET ratio == Quotient(Tc - T2, Tc - T1)
             IN  Ret([ D_AB_T1 |-> << DAB_T2 * ratio[1]^n, ratio[2]^n >>,
                       n       |-> n ])

(***************************************************************************)
(* Specification of the Tyne extrapolation as a pure function              *)
(***************************************************************************)
MaxDeltaHvStep == 600

\* multiples of 100 kJ/kmol, and the value just below each threshold
DeltaHvValues ==
    { 100 * k : k \in 0 .. MaxDeltaHvStep }
        \cup { 7899, 29999, 38999, 45999, 49999 }

TyneInit ==
    /\ pc = "start"
    /\ call \in [ op : {"tyne_extrapolation"},
                  DAB_T2 : {10, 25},
                  T1 : {30000, 40000, 50000},
                  T2 : {30000, 40000, 60000},
                  Tc : {50000},
                  deltaHv : DeltaHvValues ]
    /\ result = Ret([D_AB_T1 |-> << 0, 1 >>, n |-> 0])
    /\ Idle

TyneCall ==
    /\ pc = "start"
    /\ call.op = "tyne_extrapolation"
    /\ result' = tyne_extrapolation(call.DAB_T2, call.T1, call.T2, call.Tc, call.deltaHv)
    /\ pc' = "done"
    /\ UNCHANGED << call, request, response, mixture >>

TyneNext == TyneCall

SpecTyne == TyneInit /\ [][TyneNext]_vars

TyneDone == pc = "done" /\ call.op = "tyne_extrapolation"

(* C9: for a vaporization enthalpy below 7900 kJ/kmol the step function    *)
(* matches no branch: no exponent is selected and the calculation ends as  *)
(* an input-domain error instead of returning a diffusivity and exponent.  *)
C9_BelowDomainIsError ==
    (TyneDone /\ call.deltaHv < 7900) => result.exc /= "none"

(* C10: for every dHv >= 7900 exactly one exponent is selected by          *)
(* half-open intervals: 3 on [7900,30000), 4 on [30000,39000), 6 on        *)
(* [39000,46000), 8 on [46000,50000), 10 from 50000 on, each threshold     *)
(* belonging to the upper interval; the returned exponent is the one used  *)
(* in D(T2) * ((Tc - T2)/(Tc - T1))^n.                                     *)
C10_TyneExponentIntervals ==
    (TyneDone /\ call.deltaHv >= 7900 /\ result.exc = "none") =>
        LET n == result.val.n
            d == call.deltaHv
            D == result.val.D_AB_T1
        IN  /\ n \in {3, 4, 6, 8, 10}
            /\ n = 3  <=> (7900 <= d /\ d < 30000)
            /\ n = 4  <=> (30000 <= d /\ d < 39000)
            /\ n = 6  <=> (39000 <= d /\ d < 46000)
            /\ n = 8  <=> (46000 <= d /\ d < 50000)
            /\ n = 10 <=> d >= 50000
            \* D * (Tc - T1)^n = D(T2) * (Tc - T2)^n, differences in units of 100 K
            /\ D[2] /= 0
            /\ D[1] * ((call.Tc - call.T1) \div 10000)^n
                  = call.DAB_T2 * ((call.Tc - call.T2) \div 10000)^n * D[2]

\* dHv = 30000, a threshold, has been given the upper interval's n = 4
C10_Witness ==
    /\ TyneDone /\ call.deltaHv = 30000
    /\ call.T1 = 30000 /\ call.T2 = 40000
    /\ result.exc = "none" /\ result.val.n = 4
    /\ result.val.D_AB_T1 = << call.DAB_T2, 16 >>

(***************************************************************************)
(* Liquid correlations: Scheibel                                           *)
(* Molar volumes in 1e-2 cm3/mol, viscosities in 1e-2 cP, K in 1e-12,      *)
(* liquid diffusivities in 1e-9 cm2/s.                                     *)
(***************************************************************************)
\* (3 * Vb / Va) ** (2/3) in 1e-3, for Va > 0
ScheibelRatioTerm(Va, Vb) ==
    LET r == (3 * Vb * 10^3) \div Va
    IN  ICbrt(r * r * 10^3)

\* a selection whose thresholds fall in the lower branch
ScheibelKInclusive(Va, Vb) ==
    IF Va <= 2 * Vb THEN Ret(189000)
    ELSE IF 10 * Va <= 25 * Vb THEN Ret(175000)
    ELSE IF Va = 0 THEN Raise("ZeroDivisionError")
    ELSE Ret(82 * (10^3 + ScheibelRatioTerm(Va, Vb)))

\* lines 374-379: the constant K
ScheibelK(Va, Vb) ==
    IF Va < 2 * Vb THEN Ret(189000)
    ELSE IF 10 * Va < 25 * Vb THEN Ret(175000)
    ELSE IF Va = 0 THEN Raise("ZeroDivisionError")
    ELSE Ret(82 * (10^3 + ScheibelRatioTerm(Va, Vb)))

\* scheibel: K * T / (muB * Va ** (1/3)); T in cK
scheibel(T, muB, Va, Vb) ==
    LET K == ScheibelK(Va, Vb)
        denominator == muB * ICbrt(Va * 10^4)
    IN  IF K.exc /= "none" THEN K
        ELSE IF denominator = 0 THEN Raise("ZeroDivisionError")
        ELSE Ret((K.val * (T \div 10)) \div denominator)

(***************************************************************************)
(* Specification of the Scheibel correlation as a pure function            *)
(***************************************************************************)
MaxVolumeStep == 80

\* solute volumes in steps of 0.5 cm3/mol
ScheibelVa == { 50 * k : k \in 0 .. MaxVolumeStep }
ScheibelVb == {0, 500, 600, 1600}

ScheibelInit ==
    /\ pc = "start"
    /\ call \in [ op : {"scheibel"}, T : {29815, 35000}, muB : {0, 89, 100},
                  Va : ScheibelVa, Vb : ScheibelVb ]
    /\ result = Ret(0)
    /\ Idle

ScheibelCall ==
    /\ pc = "start"
    /\ call.op = "scheibel"
    /\ result' = scheibel(call.T, call.muB, call.Va, call.Vb)
    /\ pc' = "done"
    /\ UNCHANGED << call, request, response, mixture >>

ScheibelNext == ScheibelCall

SpecScheibel == ScheibelInit /\ [][ScheibelNext]_vars

ScheibelDone == pc = "done" /\ call.op = "scheibel"

\* the K behind a returned diffusivity D = K * T / (muB * Va ** (1/3)) is k
ReturnedWithK(k) ==
    /\ result.exc = "none"
    /\ result.val = (k * (call.T \div 10)) \div (call.muB * ICbrt(call.Va * 10^4))

(* C11: Scheibel's K is a three-way rule evaluated in order on Va against  *)
(* Vb: 18.9e-8 when Va < 2*Vb; 17.5e-8 when 2*Vb <= Va < 2.5*Vb; otherwise *)
(* 8.2e-8 * (1 + (3*Vb/Va)^(2/3)); exactly one branch applies, Va = 2*Vb   *)
(* falls in the second and Va = 2.5*Vb in the third (Va=10, 14, 20 with    *)
(* Vb=6 take the first, second and third).                                 *)
C11_ScheibelKSelection ==
    (ScheibelDone /\ call.muB > 0 /\ call.Va > 0) =>
        LET Va == call.Va
            Vb == call.Vb
            \* c = (3*Vb/Va)^(2/3) in 1e-3: c^3 <= r^2 < (c+1)^3 with r = 3*Vb/Va
            r  == (3000 * Vb) \div Va
            c  == CHOOSE x \in 0 .. 1300 :
                     x * x * x <= r * r * 1000 /\ r * r * 1000 < (x + 1) * (x + 1) * (x + 1)
        IN  /\ Va < 2 * Vb => ReturnedWithK(189000)
            /\ (2 * Vb <= Va /\ 2 * Va < 5 * Vb) => ReturnedWithK(175000)
            /\ 2 * Va >= 5 * Vb => ReturnedWithK(82 * (1000 + c))
            /\ (Va = 1000 /\ Vb = 600) => ReturnedWithK(189000)
            /\ (Va = 1400 /\ Vb = 600) => ReturnedWithK(175000)
            /\ (Va = 2000 /\ Vb = 600) => ReturnedWithK(82 * (1000 + c)) /\ c = 932

\* Va = 15, Vb = 6: Va = 2.5*Vb has taken the third branch
C11_Witness ==
    /\ ScheibelDone /\ call.Va = 1500 /\ call.Vb = 600 /\ call.muB = 100
    /\ ReturnedWithK(82 * (1000 + 1129))
    /\ ~ReturnedWithK(175000)

\* Va = 12, Vb = 6: Va = 2*Vb has taken the second branch
C11_SecondBranchReached ==
    /\ ScheibelDone /\ call.Va = 1200 /\ call.Vb = 600 /\ call.muB = 100
    /\ ReturnedWithK(175000)

(***************************************************************************)
(* Specification of the unit converters as pure functions                  *)
(***************************************************************************)
MaxDegreeStep == 400
MaxPressureStep == 40

\* temperatures from -40.00 in steps of one degree (centi-degrees)
ConvertTemperatures == { 100 * k - 4000 : k \in 0 .. MaxDegreeStep }

\* pressures from 0 in steps of 0.05 (milli-units)
ConvertPressures == { 50 * k : k \in 0 .. MaxPressureStep }

TemperatureUnits ==
    { "C", "c", "Celsius", "celsius", "CELSIUS", "F", "f", "Fahrenheit", "fahrenheit",
      "FAHRENHEIT", "K", "k", "Kelvin", "kelvin", "R", "xyz", "" }

PressureUnits ==
    { "atm", "ATM", "Atm", "bar", "Bar", "BAR", "psi", "PSI", "pa", "Pa", "PA",
      "kpa", "kPa", "KPA", "mmhg", "mmHg", "MMHG", "torr", "Torr", "TORR",
      "mbar", "xyz", "" }

ConvertInit ==
    /\ pc = "start"
    /\ \/ call \in [ op : {"convert_temperature_to_kelvin"},
                     value : ConvertTemperatures, unit : TemperatureUnits ]
       \/ call \in [ op : {"convert_pressure_to_atm"},
                     value : ConvertPressures, unit : PressureUnits ]
    /\ result = 0
    /\ Idle

ConvertTemperatureCall ==
    /\ pc = "start"
    /\ call.op = "convert_temperature_to_kelvin"
    /\ result' = convert_temperature_to_kelvin(call.value, call.unit)
    /\ pc' = "done"
    /\ UNCHANGED << call, request, response, mixture >>

ConvertPressureCall ==
    /\ pc = "start"
    /\ call.op = "convert_pressure_to_atm"
    /\ result' = convert_pressure_to_atm(call.value, call.unit)
    /\ pc' = "done"
    /\ UNCHANGED << call, request, response, mixture >>

ConvertNext == ConvertTemperatureCall \/ ConvertPressureCall

SpecConvert == ConvertInit /\ [][ConvertNext]_vars

TemperatureDone == pc = "done" /\ call.op = "convert_temperature_to_kelvin"
PressureDone == pc = "done" /\ call.op = "convert_pressure_to_atm"

\* result = floor(value * mantissa / 10^places), stated without the quotient
IsProductBy(mantissa, places) ==
    LET product == call.value * mantissa
    IN  IF places <= 6
        THEN /\ result * 10^places <= product
             /\ product < (result + 1) * 10^places
        ELSE /\ result * 10^(places - 6) <= product \div 10^6
             /\ product \div 10^6 < (result + 1) * 10^(places - 6)

(* C13: both unit converters are total and fail-open.  The temperature     *)
(* converter returns value + 273.15 for 'c'/'celsius',                     *)
(* (value - 32)*5/9 + 273.15 for 'f'/'fahrenheit' (0 C and 32 F both give  *)
(* 273.15) and the value unchanged for every other unit; the pressure      *)
(* converter multiplies by the factor of atm, bar, psi, pa, kpa, mmhg or   *)
(* torr and by 1 for every other unit; units match case-insensitively and  *)
(* no unit string gives an error.                                          *)
C13_ConvertersTotalFailOpen ==
    /\ TemperatureDone =>
          LET u == call.unit
              v == call.value
          IN  /\ u \in {"C", "c", "Celsius", "celsius", "CELSIUS"} => result = v + 27315
              /\ u \in {"F", "f", "Fahrenheit", "fahrenheit", "FAHRENHEIT"} =>
                    \* result - 273.15 = floor((v - 32) * 5 / 9)
                    /\ 9 * (result - 27315) <= 5 * (v - 3200)
                    /\ 5 * (v - 3200) < 9 * (result - 27315) + 9
              /\ u \in {"K", "k", "Kelvin", "kelvin", "R", "xyz", ""} => result = v
              /\ (v = 0 /\ u = "C") => result = 27315
              /\ (v = 3200 /\ u = "F") => result = 27315
    /\ PressureDone =>
          LET u == call.unit
          IN  /\ u \in {"atm", "ATM", "Atm"} => result = call.value
              /\ u \in {"bar", "Bar", "BAR"} => IsProductBy(986923, 6)
              /\ u \in {"psi", "PSI"} => IsProductBy(68046, 6)
              /\ u \in {"pa", "Pa", "PA"} => IsProductBy(986923, 11)
              /\ u \in {"kpa", "kPa", "KPA"} => IsProductBy(986923, 8)
              /\ u \in {"mmhg", "mmHg", "MMHG", "torr", "Torr", "TORR"} =>
                    IsProductBy(131579, 8)
              /\ u \in {"mbar", "xyz", ""} => result = call.value

\* 32 F, written in capitals, has given 273.15 K
C13_Witness ==
    TemperatureDone /\ call.unit = "FAHRENHEIT" /\ call.value = 3200 /\ result = 27315

\* 2 psi, the unit in capitals, has given 0.136 atm
C13_PressureReached ==
    PressureDone /\ call.unit = "PSI" /\ call.value = 2000 /\ result = 136

\* an unknown pressure unit has passed the value through
C13_FailOpenReached ==
    PressureDone /\ call.unit = "mbar" /\ call.value = 1000 /\ result = 1000

(***************************************************************************)
(* Liquid correlations.  Molar and critical volumes are in 1e-2 cm3/mol,   *)
(* viscosities in 1e-2 cP, molecular masses in 1e-2 g/mol, association     *)
(* factors in 1e-2, liquid diffusivities in 1e-9 cm2/s.                    *)
(* x ** y for a non-integer y is exp2(y * log2(x)) in binary fixed point   *)
(* with LogBits fractional bits.                                           *)
(***************************************************************************)
LogBits == 12

RECURSIVE Log2Floor(_)
\* floor(log2(v)) for v >= 1
Log2Floor(v) == IF v < 2 THEN 0 ELSE 1 + Log2Floor(v \div 2)

RECURSIVE Log2Frac(_, _)
\* the fractional bits i..LogBits of log2(m / 2^14), 2^14 <= m < 2^15
Log2Frac(m, i) ==
    IF i > LogBits THEN 0
    ELSE LET sq == (m * m) \div 2^14
         IN  IF sq >= 2^15 THEN 2^(LogBits - i) + Log2Frac(sq \div 2, i + 1)
             ELSE Log2Frac(sq, i + 1)

\* log2(v) in units of 2^-LogBits, v >= 1
Log2Fix(v) ==
    LET k == Log2Floor(v)
        m == IF k >= 14 THEN v \div 2^(k - 14) ELSE v * 2^(14 - k)
    IN  k * 2^LogBits + Log2Frac(m, 1)

\* 2 ** (2 ** -i) in units of 2^-14, i = 1 .. LogBits
Exp2Table ==
    << 23170, 19484, 17867, 17109, 16743, 16562, 16473, 16428, 16406, 16395, 16390, 16387 >>

RECURSIVE Exp2Frac(_, _, _)
\* m * 2 ** (the fractional bits i..LogBits of fp), in units of 2^-14
Exp2Frac(fp, i, m) ==
    IF i > LogBits THEN m
    ELSE IF (fp \div 2^(LogBits - i)) % 2 = 1
         THEN Exp2Frac(fp, i + 1, (m * Exp2Table[i]) \div 2^14)
         ELSE Exp2Frac(fp, i + 1, m)

\* 2 ** (y / 2^LogBits), truncated to an integer
Exp2Fix(y) ==
    LET ip == y \div 2^LogBits
        m  == Exp2Frac(y % 2^LogBits, 1, 2^14)
    IN  IF ip >= 14 THEN m * 2^(ip - 14)
        ELSE IF ip < 0 - 16 THEN 0
        ELSE m \div 2^(14 - ip)

\* (v / in_scale) ** (num / den) in units of 1 / out_scale, for v >= 0 and a
\* positive exponent
Pow(v, in_scale, num, den, out_scale) ==
    IF v = 0 THEN 0
    ELSE Exp2Fix(((Log2Fix(v) - Log2Fix(in_scale)) * num) \div den + Log2Fix(out_scale))

\* PHI_B_TABLA.get(solvent, 1.0), in 1e-2
PHI_B_TABLA(solvent) ==
    CASE solvent = "agua" -> 226
      [] solvent = "metanol" -> 190
      [] solvent = "etanol" -> 150
      [] solvent \in {"benceno", "eter", "heptano", "otros"} -> 100
      [] OTHER -> 100

\* Tyn-Calus with the exponent 1
calculate_Va_linear(Vc) == (285 * Vc) \div 10^3

\* Tyn-Calus: 0.285 * Vc ** 1.048
calculate_Va_from_Vc(Vc) == (285 * Pow(Vc, 100, 1048, 1000, 100)) \div 10^3

\* 7.4e-8 * (phi * M) ** 0.5 * T / (mu * Va ** 0.6); T in cK
wilke_chang(T, mu, Va, M, phi) ==
    LET root        == ISqrt(phi * M)
        denominator == (mu * Pow(Va, 100, 6, 10, 1000)) \div 100
    IN  IF mu = 0 \/ Va = 0 \/ denominator = 0 THEN Raise("ZeroDivisionError")
        ELSE Ret((74 * root * (T \div 10)) \div denominator)

\* 13.26e-5 * mu ** -1.14 * Va ** -0.589
hayduk_laudie(mu, Va) ==
    LET powers == (Pow(mu, 100, 114, 100, 1000) * Pow(Va, 100, 589, 1000, 1000)) \div 10^3
    IN  IF mu = 0 \/ Va = 0 \/ powers = 0 THEN Raise("ZeroDivisionError")
        ELSE Ret((132600 * 10^3) \div powers)

(***************************************************************************)
(* The HTTP handler of the liquid calculation                              *)
(***************************************************************************)
\* 'key in data and data[key]': the key is present and its value is truthy
Supplied(data, key) == key \in DOMAIN data /\ data[key] /= 0

\* a selection that prefers the critical volume
SelectVolumeCriticalFirst(data, molar_key, critical_key) ==
    IF Supplied(data, critical_key) THEN Ret(calculate_Va_from_Vc(data[critical_key]))
    ELSE IF Supplied(data, molar_key) THEN Ret(data[molar_key])
    ELSE Raise("ValueError")

\* the if/elif/else that obtains a molar volume from the payload
SelectVolume(data, molar_key, critical_key) ==
    IF Supplied(data, molar_key) THEN Ret(data[molar_key])
    ELSE IF Supplied(data, critical_key) THEN Ret(calculate_Va_from_Vc(data[critical_key]))
    ELSE Raise("ValueError")

WilkeChangBranch(data, temperature) ==
    IF ~({"viscosity", "molecular_mass_solvent", "solvent"} \subseteq DOMAIN data)
    THEN ErrorResponse(500, "KeyError")
    ELSE
    LET phi_B == PHI_B_TABLA(Lower(data.solvent))
        Va    == SelectVolume(data, "molar_volume", "critical_volume")
    IN  IF Va.exc /= "none" THEN ErrorResponse(500, Va.exc)
        ELSE
        LET diffusivity == wilke_chang(temperature, data.viscosity, Va.val,
                                       data.molecular_mass_solvent, phi_B)
        IN  IF diffusivity.exc /= "none" THEN ErrorResponse(500, diffusivity.exc)
            ELSE [status |-> 200,
                  body   |-> [ temperature_k          |-> temperature,
                               method                 |-> data.method,
                               units                  |-> "cm2/s",
                               diffusivity            |-> diffusivity.val,
                               viscosity              |-> data.viscosity,
                               molecular_mass_solvent |-> data.molecular_mass_solvent,
                               solvent                |-> data.solvent,
                               phi_B                  |-> phi_B,
                               Va                     |-> Va.val ]]

HaydukLaudieBranch(data, temperature) ==
    IF "viscosity" \notin DOMAIN data
    THEN ErrorResponse(500, "KeyError")
    ELSE
    LET Va == SelectVolume(data, "molar_volume", "critical_volume")
    IN  IF Va.exc /= "none" THEN ErrorResponse(500, Va.exc)
        ELSE
        LET diffusivity == hayduk_laudie(data.viscosity, Va.val)
        IN  IF diffusivity.exc /= "none" THEN ErrorResponse(500, diffusivity.exc)
            ELSE [status |-> 200,
                  body   |-> [ temperature_k |-> temperature,
                               method        |-> data.method,
                               units         |-> "cm2/s",
                               diffusivity   |-> diffusivity.val,
                               viscosity     |-> data.viscosity,
                               Va            |-> Va.val ]]

ScheibelBranch(data, temperature) ==
    IF "viscosity" \notin DOMAIN data
    THEN ErrorResponse(500, "KeyError")
    ELSE
    LET Va == SelectVolume(data, "molar_volume", "critical_volume")
        Vb == SelectVolume(data, "solvent_molar_volume", "solvent_critical_volume")
    IN  IF Va.exc /= "none" THEN ErrorResponse(500, Va.exc)
        ELSE IF Vb.exc /= "none" THEN ErrorResponse(500, Vb.exc)
        ELSE
        LET diffusivity == scheibel(temperature, data.viscosity, Va.val, Vb.val)
        IN  IF diffusivity.exc /= "none" THEN ErrorResponse(500, diffusivity.exc)
            ELSE [status |-> 200,
                  body   |-> [ temperature_k |-> temperature,
                               method        |-> data.method,
                               units         |-> "cm2/s",
                               diffusivity   |-> diffusivity.val,
                               viscosity     |-> data.viscosity,
                               Va            |-> Va.val,
                               Vb            |-> Vb.val ]]

TyneBranch(data, temperature) ==
    IF ~({"DAB_T2", "T2", "T2_unit", "Tc", "Tc_unit", "deltaHv"} \subseteq DOMAIN data)
    THEN ErrorResponse(500, "KeyError")
    ELSE
    LET T1 == temperature
        T2 == convert_temperature_to_kelvin(data.T2, data.T2_unit)
        Tc == convert_temperature_to_kelvin(data.Tc, data.Tc_unit)
        extrapolated == tyne_extrapolation(data.DAB_T2, T1, T2, Tc, data.deltaHv)
    IN  IF extrapolated.exc /= "none" THEN ErrorResponse(500, extrapolated.exc)
        ELSE [status |-> 200,
              body   |-> [ temperature_k |-> temperature,
                           method        |-> data.method,
                           units         |-> "cm2/s",
                           diffusivity   |-> extrapolated.val.D_AB_T1,
                           DAB_T2        |-> data.DAB_T2,
                           T1            |-> T1,
                           T2            |-> T2,
                           Tc            |-> Tc,
                           deltaHv       |-> data.deltaHv,
                           exponent_n    |-> extrapolated.val.n ]]

\* a handler whose final else answers with an empty success
LiquidHandlerLenient(data) ==
    IF ~({"method", "temperature", "temp_unit"} \subseteq DOMAIN data)
    THEN ErrorResponse(500, "KeyError")
    ELSE
    LET temperature == convert_temperature_to_kelvin(data.temperature, data.temp_unit)
    IN  CASE data.method = "wilke_chang" -> WilkeChangBranch(data, temperature)
          [] data.method = "hayduk_laudie" -> HaydukLaudieBranch(data, temperature)
          [] data.method = "scheibel" -> ScheibelBranch(data, temperature)
          [] data.method = "tyne" -> TyneBranch(data, temperature)
          [] OTHER -> [status |-> 200,
                       body   |-> [ temperature_k |-> temperature,
                                    method        |-> data.method,
                                    units         |-> "cm2/s",
                                    diffusivity   |-> 0 ]]

\* the whole handler: the response it returns
LiquidHandler(data) ==
    IF ~({"method", "temperature", "temp_unit"} \subseteq DOMAIN data)
    THEN ErrorResponse(500, "KeyError")
    ELSE
    LET temperature == convert_temperature_to_kelvin(data.temperature, data.temp_unit)
    IN  CASE data.method = "wilke_chang" -> WilkeChangBranch(data, temperature)
          [] data.method = "hayduk_laudie" -> HaydukLaudieBranch(data, temperature)
          [] data.method = "scheibel" -> ScheibelBranch(data, temperature)
          [] data.method = "tyne" -> TyneBranch(data, temperature)
          [] OTHER -> ErrorResponse(500, "ValueError")

LiquidMethods == {"wilke_chang", "hayduk_laudie", "scheibel", "tyne", "stokes_einstein"}

\* 25 C, given in Celsius or in kelvin
LiquidTemperatures ==
    { [temperature |-> 2500, temp_unit |-> "C"],
      [temperature |-> 29815, temp_unit |-> "K"] }

\* the sets of keys a payload may lack
LiquidMissing ==
    SUBSET {"molar_volume", "critical_volume", "solvent_molar_volume",
            "solvent_critical_volume"}
    \cup { {key} : key \in {"method", "temperature", "viscosity", "solvent", "deltaHv"} }

\* a payload with the fields of every method, less the missing keys; a volume
\* of 0 is an empty form field
LiquidPayload(method, t, viscosity, volumes, solvent, Tc, missing) ==
    LET full == [ method                  |-> method,
                  temperature             |-> t.temperature,
                  temp_unit               |-> t.temp_unit,
                  viscosity               |-> viscosity,
                  molecular_mass_solvent  |-> 1802,
                  solvent                 |-> solvent,
                  molar_volume            |-> volumes[1],
                  critical_volume         |-> volumes[2],
                  solvent_molar_volume    |-> volumes[3],
                  solvent_critical_volume |-> volumes[4],
                  DAB_T2                  |-> 1000,
                  T2                      |-> 44815,
                  T2_unit                 |-> "K",
                  Tc                      |-> Tc,
                  Tc_unit                 |-> "K",
                  deltaHv                 |-> 40000 ]
    IN  [ key \in DOMAIN full \ missing |-> full[key] ]

ServiceGasProportions == {0, 5000, 10000}

(***************************************************************************)
(* Specification of the service: one request, to either endpoint           *)
(***************************************************************************)
ServiceInit ==
    /\ pc = "start"
    /\ \/ \E n \in 0 .. MaxSubstances :
            \E names \in [1 .. n -> Names],
               proportions \in [1 .. n -> ServiceGasProportions],
               target \in GasTargets, conditions \in GasConditions :
                 request =
                   [ kind |-> "gas",
                     data |-> GasPayload([i \in 1 .. n |->
                                             SubstanceData(i, names[i], proportions[i])],
                                         target, conditions) ]
       \/ \E method \in LiquidMethods, t \in LiquidTemperatures, viscosity \in {0, 89},
             volumes \in {0, 2000, 9000} \X {0, 5600} \X {0, 1880} \X {0, 5600},
             solvent \in {"Agua", "benceno"}, Tc \in {29815, 59815},
             missing \in LiquidMissing :
               request =
                 [ kind |-> "liquid",
                   data |-> LiquidPayload(method, t, viscosity, volumes, solvent, Tc,
                                          missing) ]
    /\ response = [status |-> 0]
    /\ mixture = NotBuilt
    /\ call = [op |-> "none"]
    /\ result = Ret(0)

calculate_liquid_diffusivity ==
    /\ pc = "start"
    /\ request.kind = "liquid"
    /\ response' = LiquidHandler(request.data)
    /\ pc' = "done"
    /\ UNCHANGED << call, result, request, mixture >>

ServiceNext == calculate_diffusivity \/ calculate_liquid_diffusivity

SpecService == ServiceInit /\ [][ServiceNext]_vars

(***************************************************************************)
(* Properties of the service                                               *)
(***************************************************************************)
LiquidDone == pc = "done" /\ request.kind = "liquid"

IsSuccess(r) ==
    r.status = 200 /\ "diffusivity" \in DOMAIN r.body /\ "error" \notin DOMAIN r.body

\* the keys the liquid handler reads unconditionally for a method
RequiredKeys(method) ==
    {"method", "temperature", "temp_unit"} \cup
    CASE method = "wilke_chang" -> {"viscosity", "molecular_mass_solvent", "solvent"}
      [] method \in {"hayduk_laudie", "scheibel"} -> {"viscosity"}
      [] method = "tyne" -> {"DAB_T2", "T2", "T2_unit", "Tc", "Tc_unit", "deltaHv"}
      [] OTHER -> {}

LiquidFieldMissing ==
    \/ "method" \notin DOMAIN request.data
    \/ ~(RequiredKeys(request.data.method) \subseteq DOMAIN request.data)

UnknownMethod ==
    /\ "method" \in DOMAIN request.data
    /\ request.data.method \notin {"wilke_chang", "hayduk_laudie", "scheibel", "tyne"}

\* a parsed gas request of three or more substances in which a substance
\* named as the target has proportion exactly 1.0
GasSingular ==
    /\ Parsed
    /\ Len(request.data.substances) >= 3
    /\ \E i \in 1 .. Len(request.data.substances) :
          /\ request.data.substances[i].name = request.data.target_substance
          /\ request.data.substances[i].proportion = 10^4

\* every request ends in exactly one of success and error
ExactlyOneOutcome ==
    /\ IsSuccess(response) \/ IsError(response)
    /\ ~(IsSuccess(response) /\ IsError(response))

C12_UnknownMethodReached ==
    LiquidDone /\ UnknownMethod /\ response = ErrorResponse(500, "ValueError")

\* a liquid request has lacked a field and ended with an error
C12_MissingFieldReached ==
    /\ LiquidDone /\ "method" \in DOMAIN request.data
    /\ request.data.method = "tyne" /\ "deltaHv" \notin DOMAIN request.data
    /\ response = ErrorResponse(500, "KeyError")

\* both endpoints have answered with a diffusivity
C12_GasSuccessReached == GasDone /\ IsSuccess(response) /\ response.body.diffusivity > 0
C12_LiquidSuccessReached ==
    LiquidDone /\ IsSuccess(response) /\ request.data.method = "wilke_chang"


\* the request names one of the three correlations and has the keys its
\* branch reads before it selects the volumes
ReachesVolumeSelection ==
    /\ LiquidDone
    /\ "method" \in DOMAIN request.data
    /\ request.data.method \in {"wilke_chang", "hayduk_laudie", "scheibel"}
    /\ RequiredKeys(request.data.method) \subseteq DOMAIN request.data

\* the volume the rule gives: the molar volume if supplied (present and not
\* empty), else Tyn-Calus of the critical volume if supplied, else none (0)
RuleVolume(molar_key, critical_key) ==
    IF Supplied(request.data, molar_key) THEN request.data[molar_key]
    ELSE IF Supplied(request.data, critical_key)
         THEN (285 * Pow(request.data[critical_key], 100, 1048, 1000, 100)) \div 10^3
         ELSE 0

\* the diffusivity of the request's method from the given volumes
MethodDiffusivity(Va, Vb) ==
    LET d == request.data
        T == convert_temperature_to_kelvin(d.temperature, d.temp_unit)
    IN  CASE d.method = "wilke_chang" ->
               wilke_chang(T, d.viscosity, Va, d.molecular_mass_solvent,
                           PHI_B_TABLA(Lower(d.solvent)))
          [] d.method = "hayduk_laudie" -> hayduk_laudie(d.viscosity, Va)
          [] d.method = "scheibel" -> scheibel(T, d.viscosity, Va, Vb)

(* C14: in the liquid calculation, for wilke_chang, hayduk_laudie and      *)
(* scheibel, Va is the supplied molar_volume whenever one is supplied,     *)
(* whatever critical_volume is; it is the Tyn-Calus value 0.285*Vc^1.048   *)
(* only when no molar volume is supplied but a critical volume is; when    *)
(* neither is supplied the request ends with an error and no diffusivity.  *)
(* The same rule selects Vb from solvent_molar_volume and                  *)
(* solvent_critical_volume for scheibel.                                   *)
C14_MolarVolumePreferred ==
    ReachesVolumeSelection =>
      LET Va == RuleVolume("molar_volume", "critical_volume")
          Vb == IF request.data.method = "scheibel"
                THEN RuleVolume("solvent_molar_volume", "solvent_critical_volume")
                ELSE 1
      IN  /\ (Va = 0 \/ Vb = 0) => IsError(response)
          /\ IsSuccess(response) =>
                /\ response.body.Va = Va
                /\ request.data.method = "scheibel" => response.body.Vb = Vb
                /\ response.body.diffusivity = MethodDiffusivity(Va, Vb).val
          /\ (Va /= 0 /\ Vb /= 0 /\ request.data.viscosity /= 0) => IsSuccess(response)

\* both solute volumes supplied: the molar volume has been used
C14_Witness ==
    /\ ReachesVolumeSelection /\ request.data.method = "hayduk_laudie"
    /\ Supplied(request.data, "molar_volume") /\ Supplied(request.data, "critical_volume")
    /\ IsSuccess(response) /\ response.body.Va = request.data.molar_volume

\* only the critical volume supplied: Tyn-Calus has given Va (56 -> 19.35)
C14_TynCalusReached ==
    /\ ReachesVolumeSelection /\ request.data.method = "wilke_chang"
    /\ "molar_volume" \notin DOMAIN request.data
    /\ Supplied(request.data, "critical_volume") /\ request.data.critical_volume = 5600
    /\ IsSuccess(response) /\ response.body.Va = 1935

\* scheibel with Va and no solvent volume at all: an error
C14_NoSolventVolumeReached ==
    /\ ReachesVolumeSelection /\ request.data.method = "scheibel"
    /\ Supplied(request.data, "molar_volume")
    /\ ~Supplied(request.data, "solvent_molar_volume")
    /\ ~Supplied(request.data, "solvent_critical_volume")
    /\ response = ErrorResponse(500, "ValueError")

\* scheibel with the solvent volume from its critical volume
C14_SolventTynCalusReached ==
    /\ ReachesVolumeSelection /\ request.data.method = "scheibel"
    /\ ~Supplied(request.data, "solvent_molar_volume")
    /\ IsSuccess(response) /\ response.body.Vb = 1935


(***************************************************************************)
(* Range and monotonicity of the lookup                                    *)
(***************************************************************************)
\* a[1]/a[2] <= b[1]/b[2] for positive denominators, by integer parts and
\* remainders
FracLeq(a, b) ==
    LET qa == a[1] \div a[2]
        qb == b[1] \div b[2]
    IN  IF qa /= qb THEN qa < qb
        ELSE (a[1] % a[2]) * b[2] <= (b[1] % b[2]) * a[2]

TableNonIncreasing ==
    \A i \in 1 .. (TableLen - 1) : table_index[i][2] >= table_index[i + 1][2]

(* C16: for every T* the value returned by the lookup lies in              *)
(* [0.5256, 2.662] and is non-increasing in T*; it is never zero or        *)
(* negative, so the collision integral cannot by itself be the zero        *)
(* divisor of calculate_binary_diffusivity.                                *)
C16_LookupBoundedNonIncreasing ==
    /\ TableNonIncreasing
    /\ LookupDone =>
          /\ result[2] > 0
          /\ FracLeq(<< 5256, 1 >>, result)
          /\ FracLeq(result, << 26620, 1 >>)
          /\ result[1] \div result[2] > 0
          /\ call.t_star - 1 \in TStarRange => FracLeq(result, Lookup(call.t_star - 1))

\* T* = 85, inside the last interval: the value is above 0.5256 and below
\* the value at T* = 84.999
C16_Witness ==
    /\ LookupDone /\ call.t_star = 85000
    /\ ~FracLeq(result, << 5256, 1 >>)
    /\ ~FracLeq(Lookup(84999), result)


(***************************************************************************)
(* The 0 fallback of the multicomponent case                               *)
(***************************************************************************)
\* three or more substances with unique names, T > 0, P > 0, positive
\* molecular masses, critical volumes and critical temperatures, every
\* proportion strictly between 0 and 1
ValidMulticomponent ==
    LET n == Len(call.substances)
    IN  /\ n >= 3
        /\ \A i, j \in 1 .. n : i /= j => call.substances[i].name /= call.substances[j].name
        /\ call.temperature > 0 /\ call.pressure > 0
        /\ \A i \in 1 .. n :
              /\ call.substances[i].molecular_mass > 0
              /\ call.substances[i].critical_volume > 0
              /\ call.substances[i].critical_temperature > 0
              /\ 0 < call.substances[i].proportion
              /\ call.substances[i].proportion < 10^4

(* C17: for 3 or more substances with unique names, T > 0, P > 0, positive *)
(* masses, critical volumes and critical temperatures and every proportion *)
(* strictly in (0,1), the accumulated sum is strictly positive, so the     *)
(* result is 1/Sum > 0 and the 0 fallback is never taken; a result of 0 is *)
(* reached only when the precondition fails: a single-substance            *)
(* collection, every other substance sharing the target's name, or         *)
(* non-positive proportions.                                               *)
C17_FallbackOnlyOutsidePrecondition ==
    MixtureDone =>
        LET target == call.target_substance
            others == Others(target, call.substances)
            sum_terms == SumTerms(target, call.substances, call.temperature,
                                  call.pressure)
        IN  /\ ValidMulticomponent =>
                  /\ sum_terms.exc = "none" /\ sum_terms.val > 0
                  /\ result.exc = "none" /\ result.val > 0
                  /\ result.val = 10^9 \div sum_terms.val
            /\ (result.exc = "none" /\ result.val = 0) =>
                  /\ ~ValidMulticomponent
                  /\ \/ Len(call.substances) = 1
                     \/ others = {}
                     \/ \A i \in others : call.substances[i].proportion <= 0

\* a valid mixture of three has given 1/Sum > 0
C17_Witness ==
    /\ MixtureDone /\ ValidMulticomponent
    /\ call.target_substance.proportion = 2500
    /\ result.exc = "none" /\ result.val > 0

\* three substances all named as the target have given 0
C17_AllSameNameReached ==
    /\ MixtureDone /\ Len(call.substances) = 3
    /\ Others(call.target_substance, call.substances) = {}
    /\ result = Ret(0)

\* the others at proportion 0 have given 0
C17_ZeroProportionsReached ==
    /\ MixtureDone /\ Len(call.substances) = 3
    /\ Cardinality(Others(call.target_substance, call.substances)) = 2
    /\ result = Ret(0)


(***************************************************************************)
(* Specification of repeated evaluation: the same engine operation is      *)
(* evaluated twice on the same objects while another request is handled at *)
(* any point before, between or after the two evaluations.  call holds the *)
(* objects, result the sequence of outputs so far.                         *)
(***************************************************************************)
EngineProportions == {2500, 5000}

\* the requests handled meanwhile: two gas requests and a liquid one
OtherRequests ==
    { [ kind |-> "gas",
        data |-> GasPayload(<< SubstanceData(1, "A", 5000), SubstanceData(2, "B", 5000) >>,
                            "A", conditions) ] :
        conditions \in { c \in GasConditions : c.temp_unit = "K" } }
    \cup
    { [ kind |-> "liquid",
        data |-> LiquidPayload("wilke_chang", [temperature |-> 2500, temp_unit |-> "C"],
                               89, << 2000, 5600, 1880, 5600 >>, "Agua", 59815, {}) ] }

EngineInit ==
    /\ pc = "start"
    /\ \E n \in 1 .. MaxSubstances :
         \E names \in [1 .. n -> Names], proportions \in [1 .. n -> EngineProportions],
            k \in 1 .. n,
            op \in {"calculate_mixture_diffusivity", "calculate_binary_diffusivity"} :
              /\ op = "calculate_binary_diffusivity" => n >= 2
              /\ call = [ op               |-> op,
                          substances       |-> Collection(names, proportions),
                          target_substance |-> Collection(names, proportions)[k],
                          temperature      |-> 30000,
                          pressure         |-> 1000 ]
    /\ result = << >>
    /\ request \in OtherRequests
    /\ response = [status |-> 0]
    /\ mixture = NotBuilt

\* an evaluation that stores each rescaled proportion y' in its Substance
EvaluateMixtureRescalingInPlace ==
    /\ pc \in {"start", "once"}
    /\ call.op = "calculate_mixture_diffusivity"
    /\ result' = Append(result,
                        calculate_mixture_diffusivity(call.target_substance, call.substances,
                                                      call.temperature, call.pressure))
    /\ call' = [ call EXCEPT !.substances =
                   [ i \in 1 .. Len(call.substances) |->
                       IF call.substances[i].name /= call.target_substance.name
                       THEN [ call.substances[i] EXCEPT !.proportion =
                                (call.substances[i].proportion * 10^4)
                                    \div (10^4 - call.target_substance.proportion) ]
                       ELSE call.substances[i] ] ]
    /\ pc' = IF pc = "start" THEN "once" ELSE "twice"
    /\ UNCHANGED << request, response, mixture >>

\* Mixture(...).calculate_mixture_diffusivity() on the objects of call
EvaluateMixture ==
    /\ pc \in {"start", "once"}
    /\ call.op = "calculate_mixture_diffusivity"
    /\ result' = Append(result,
                        calculate_mixture_diffusivity(call.target_substance, call.substances,
                                                      call.temperature, call.pressure))
    /\ pc' = IF pc = "start" THEN "once" ELSE "twice"
    /\ UNCHANGED << call, request, response, mixture >>

\* BinaryMixture(...).calculate_binary_diffusivity() on the first two objects
EvaluateBinary ==
    /\ pc \in {"start", "once"}
    /\ call.op = "calculate_binary_diffusivity"
    /\ result' = Append(result,
                        calculate_binary_diffusivity(call.substances[1], call.substances[2],
                                                     call.temperature, call.pressure))
    /\ pc' = IF pc = "start" THEN "once" ELSE "twice"
    /\ UNCHANGED << call, request, response, mixture >>

\* the other request is handled by its endpoint
HandleOtherRequest ==
    /\ response.status = 0
    /\ IF request.kind = "gas"
       THEN /\ response' = GasHandler(request.data).response
            /\ mixture' = GasHandler(request.data).mixture
       ELSE /\ response' = LiquidHandler(request.data)
            /\ mixture' = mixture
    /\ UNCHANGED << pc, call, result, request >>

EngineNext == EvaluateMixture \/ EvaluateBinary \/ HandleOtherRequest

SpecEngine == EngineInit /\ [][EngineNext]_vars

\* every Substance of the sequence stores 0.841 * Vc ** (1/3) of its
\* critical volume
DiametersCurrent(substances) ==
    \A i \in 1 .. Len(substances) :
        substances[i].colision_diameter =
            (841 * ICbrt(substances[i].critical_volume * 10^6)) \div 100

StoredDiametersCurrent ==
    /\ DiametersCurrent(call.substances)
    /\ DiametersCurrent(<< call.target_substance >>)
    /\ mixture.built => /\ DiametersCurrent(mixture.substances)
                        /\ DiametersCurrent(<< mixture.target_substance >>)

RepeatedEvaluationAgrees ==
    /\ Len(result) = (CASE pc = "start" -> 0 [] pc = "once" -> 1 [] pc = "twice" -> 2)
    /\ Len(result) = 2 => result[1] = result[2]

====
